---- MODULE Spec2Model ----
(***************************************************************************)
(* A model of menpo's TriMesh (menpo/shape/mesh/base.py): construction,     *)
(* edge-list derivation (trilist_to_adjacency_array) and subsetting by a    *)
(* vertex mask (from_mask / _isolated_mask).                                *)
(*                                                                         *)
(* Arrays are sequences.  Vertex indices are 0-based as in the source, so   *)
(* index v of an array a is a[v + 1].  A row of the points array is         *)
(* modelled by the identity of the row (a label), which is all that         *)
(* masking and reindexing depend on.  Meshes live in a heap of objects so   *)
(* that "a new instance" and "the source mesh" are different things.        *)
(***************************************************************************)
EXTENDS Integers, Sequences, FiniteSets, TLC

\* ---- bounds ----
MaxPoints == 5
MaxTris == 2
EdgeMaxTris == 2
EdgeMaxIdx == 3
NThreads == 2

None == 0

VARIABLES
    \* meshes and the last from_mask call
    heap, self, ret, mask, err, op,
    \* trilist_to_adjacency_array: its argument, its result
    trilist, adjacency_array, derived,
    \* TriMesh.__init__ run by several threads: the module global, and each
    \* thread's position, arguments and locals
    Delaunay, n_imports, pc, args, c_contiguous, trilist_ref, warned, invoked

vars == <<heap, self, ret, mask, err, op, trilist, adjacency_array, derived,
          Delaunay, n_imports, pc, args, c_contiguous, trilist_ref, warned,
          invoked>>

meshVars == <<heap, self, ret, mask, err, op>>
edgeVars == <<trilist, adjacency_array, derived>>
ctorVars == <<Delaunay, n_imports, pc, args, c_contiguous, trilist_ref,
              warned, invoked>>

\* ---- numpy helpers, as used by the source ----

\* len(points)
n_points(this) == Len(this.points)

\* len(self.trilist)
n_tris(this) == Len(this.trilist)

\* np.all(mask)
np_all(m) == \A i \in DOMAIN m : m[i]

\* np.nonzero(mask)[0]: the 0-based positions holding True
np_nonzero(m) == {i - 1 : i \in {j \in DOMAIN m : m[j]}}

\* the values occurring in a 2-D index table (what setdiff1d / unique flatten)
Values(adj) == {adj[k][j] : k \in DOMAIN adj, j \in 1..3}

\* a[m, :] with a boolean index m: the rows at the True positions, in order
BoolIndex(a, m) ==
    LET idx == SelectSeq([i \in 1..Len(a) |-> i],
                         LAMBDA i : i \in DOMAIN m /\ m[i])
    IN  [k \in 1..Len(idx) |-> a[idx[k]]]

\* vertex v is selected by mask m
Selected(m, v) == (v + 1) \in DOMAIN m /\ m[v + 1]

\* ---- menpo.shape.adjacency ----

\* mask(mask, table): only the rows all of whose indices are selected
mask_adjacency_array(m, adj) ==
    SelectSeq(adj, LAMBDA row : \A j \in 1..3 : Selected(m, row[j]))

\* reindex(table): indices remapped to the dense range of the values present
reindex_adjacency_array(adj) ==
    LET unique_values == Values(adj)
        remap(v) == Cardinality({u \in unique_values : u < v})
    IN  [k \in DOMAIN adj |-> [j \in 1..3 |-> remap(adj[k][j])]]

\* ---- TriMesh ----

\* an object id not in use
fresh(h) == CHOOSE o \in {1, 2} : o \notin DOMAIN h

\* self.copy(): a new object with the same tables
copy(h, s) ==
    LET o == fresh(h) IN [heap |-> h @@ (o :> h[s]), ref |-> o]

_isolated_mask_firstcol(this, m) ==
    LET masked_adj == mask_adjacency_array(m, this.trilist)
        isolated_indices == np_nonzero(m) \
                              {masked_adj[k][1] : k \in DOMAIN masked_adj}
    IN  [i \in DOMAIN m |-> IF (i - 1) \in isolated_indices THEN FALSE ELSE m[i]]

_isolated_mask_nowrite(this, m) ==
    LET masked_adj == mask_adjacency_array(m, this.trilist)
        new_mask == m
    IN  new_mask

\* TriMesh._isolated_mask
_isolated_mask(this, m) ==
    LET masked_adj == mask_adjacency_array(m, this.trilist)
        isolated_indices == np_nonzero(m) \ Values(masked_adj)
        new_mask == m
    IN  [i \in DOMAIN new_mask |->
            IF (i - 1) \in isolated_indices THEN FALSE ELSE new_mask[i]]

\* from_mask with the reindexing step left out
from_mask_noreindex(h, s, m) ==
    IF Len(m) # n_points(h[s])
    THEN [heap |-> h, ret |-> None, err |-> "ValueError"]
    ELSE LET c == copy(h, s)
             tm == c.ref
         IN  IF np_all(m)
             THEN [heap |-> c.heap, ret |-> tm, err |-> "none"]
             ELSE LET isolated_mask == _isolated_mask(c.heap[s], m)
                      masked_adj == mask_adjacency_array(isolated_mask,
                                                         c.heap[s].trilist)
                      h1 == [c.heap EXCEPT ![tm].trilist = masked_adj]
                      h2 == [h1 EXCEPT ![tm].points =
                                BoolIndex(h1[tm].points, isolated_mask)]
                  IN  [heap |-> h2, ret |-> tm, err |-> "none"]

\* from_mask slicing the points by the caller's mask
from_mask_rawslice(h, s, m) ==
    IF Len(m) # n_points(h[s])
    THEN [heap |-> h, ret |-> None, err |-> "ValueError"]
    ELSE LET c == copy(h, s)
             tm == c.ref
         IN  IF np_all(m)
             THEN [heap |-> c.heap, ret |-> tm, err |-> "none"]
             ELSE LET isolated_mask == _isolated_mask(c.heap[s], m)
                      masked_adj == mask_adjacency_array(isolated_mask,
                                                         c.heap[s].trilist)
                      h1 == [c.heap EXCEPT ![tm].trilist =
                                reindex_adjacency_array(masked_adj)]
                      h2 == [h1 EXCEPT ![tm].points =
                                BoolIndex(h1[tm].points, m)]
                  IN  [heap |-> h2, ret |-> tm, err |-> "none"]

\* from_mask comparing the mask length with the triangle count
from_mask_wrongguard(h, s, m) ==
    IF Len(m) # n_tris(h[s])
    THEN [heap |-> h, ret |-> None, err |-> "ValueError"]
    ELSE LET c == copy(h, s)
             tm == c.ref
         IN  IF np_all(m)
             THEN [heap |-> c.heap, ret |-> tm, err |-> "none"]
             ELSE LET isolated_mask == _isolated_mask(c.heap[s], m)
                      masked_adj == mask_adjacency_array(isolated_mask,
                                                         c.heap[s].trilist)
                      h1 == [c.heap EXCEPT ![tm].trilist =
                                reindex_adjacency_array(masked_adj)]
                      h2 == [h1 EXCEPT ![tm].points =
                                BoolIndex(h1[tm].points, isolated_mask)]
                  IN  [heap |-> h2, ret |-> tm, err |-> "none"]

\* from_mask working on self instead of on a copy
from_mask_nocopy(h, s, m) ==
    IF Len(m) # n_points(h[s])
    THEN [heap |-> h, ret |-> None, err |-> "ValueError"]
    ELSE LET tm == s
         IN  IF np_all(m)
             THEN [heap |-> h, ret |-> tm, err |-> "none"]
             ELSE LET isolated_mask == _isolated_mask(h[s], m)
                      masked_adj == mask_adjacency_array(isolated_mask,
                                                         h[s].trilist)
                      h1 == [h EXCEPT ![tm].trilist =
                                reindex_adjacency_array(masked_adj)]
                      h2 == [h1 EXCEPT ![tm].points =
                                BoolIndex(h1[tm].points, isolated_mask)]
                  IN  [heap |-> h2, ret |-> tm, err |-> "none"]

\* from_mask without the fast path
from_mask_nofastpath(h, s, m) ==
    IF Len(m) # n_points(h[s])
    THEN [heap |-> h, ret |-> None, err |-> "ValueError"]
    ELSE LET c == copy(h, s)
             tm == c.ref
             isolated_mask == _isolated_mask(c.heap[s], m)
             masked_adj == mask_adjacency_array(isolated_mask,
                                                c.heap[s].trilist)
             h1 == [c.heap EXCEPT ![tm].trilist =
                       reindex_adjacency_array(masked_adj)]
             h2 == [h1 EXCEPT ![tm].points =
                       BoolIndex(h1[tm].points, isolated_mask)]
         IN  [heap |-> h2, ret |-> tm, err |-> "none"]

\* TriMesh.from_mask: the heap after the call, the returned reference and
\* the exception raised, if any
from_mask(h, s, m) ==
    IF Len(m) # n_points(h[s])
    THEN [heap |-> h, ret |-> None, err |-> "ValueError"]
    ELSE LET c == copy(h, s)
             tm == c.ref
         IN  IF np_all(m)
             THEN [heap |-> c.heap, ret |-> tm, err |-> "none"]
             ELSE LET isolated_mask == _isolated_mask(c.heap[s], m)
                      masked_adj == mask_adjacency_array(isolated_mask,
                                                         c.heap[s].trilist)
                      h1 == [c.heap EXCEPT ![tm].trilist =
                                reindex_adjacency_array(masked_adj)]
                      h2 == [h1 EXCEPT ![tm].points =
                                BoolIndex(h1[tm].points, isolated_mask)]
                  IN  [heap |-> h2, ret |-> tm, err |-> "none"]

\* ---- the meshes and masks tried ----

\* a triangle has three distinct vertices, written here in ascending order
\* (from_mask treats the three columns alike)
Triples(n) == {t \in [1..3 -> 0..(n - 1)] : t[1] < t[2] /\ t[2] < t[3]}

TriTables(n) == UNION {[1..k -> Triples(n)] : k \in 0..MaxTris}

Masks == UNION {[1..k -> BOOLEAN] : k \in 0..MaxPoints}

\* ---- from_mask: state machine ----

MeshInit ==
    /\ \E n \in 0..MaxPoints : \E tl \in TriTables(n) :
          heap = (1 :> [points |-> [i \in 1..n |-> i - 1], trilist |-> tl])
    /\ self = 1
    /\ ret = None
    /\ mask = <<>>
    /\ err = "none"
    /\ op = "idle"

\* result = mesh.from_mask(m)
FromMask ==
    /\ op = "idle"
    /\ \E m \in Masks :
          LET r == from_mask(heap, self, m)
          IN  /\ heap' = r.heap
              /\ ret' = r.ret
              /\ err' = r.err
              /\ mask' = m
    /\ op' = "from_mask"
    /\ UNCHANGED self

\* the caller drops the result (or the exception) and keeps the mesh
Discard ==
    /\ op = "from_mask"
    /\ heap' = [o \in {self} |-> heap[o]]
    /\ ret' = None
    /\ mask' = <<>>
    /\ err' = "none"
    /\ op' = "idle"
    /\ UNCHANGED self

\* the caller goes on with the result: mesh = mesh.from_mask(m).  The old
\* object is unreachable; the one kept is renamed 1 (ids are only names).
Adopt ==
    /\ op = "from_mask"
    /\ ret # None
    /\ self' = 1
    /\ heap' = (1 :> heap[ret])
    /\ ret' = None
    /\ mask' = <<>>
    /\ err' = "none"
    /\ op' = "idle"

\* ---- properties of from_mask ----

\* the mesh from_mask was called on, and the mesh it returned
src == heap[self]
res == heap[ret]

\* the last step was a from_mask call that returned a mesh
Returned == op = "from_mask" /\ err = "none" /\ ret # None

\* every triangle index of the mesh is below its point count
InRange(this) ==
    \A k \in DOMAIN this.trilist : \A j \in 1..3 :
        this.trilist[k][j] \in 0..(n_points(this) - 1)

\* row numbers of the source's triangles all of whose vertices the mask selects
FullySelected(this, m) ==
    SelectSeq([k \in 1..n_tris(this) |-> k],
              LAMBDA k : \A j \in 1..3 : m[this.trilist[k][j] + 1])

\* the caller's mask minus every selected vertex in no fully selected triangle
Corrected(this, m) ==
    [i \in DOMAIN m |->
        /\ m[i]
        /\ \E k \in DOMAIN this.trilist :
              /\ \A j \in 1..3 : m[this.trilist[k][j] + 1]
              /\ \E j \in 1..3 : this.trilist[k][j] = i - 1]

CountTrue(m) == Cardinality({i \in DOMAIN m : m[i]})

\* C1: for a mask that is not all-True, the result's triangles are exactly
\* the source's triangles with all three vertices selected by the caller's
\* mask, in their original order (each result vertex is the source's point),
\* and masking with the corrected mask keeps what the first pass kept.
C1_TrianglesKept ==
    (Returned /\ InRange(src) /\ ~np_all(mask)) =>
        LET kept == FullySelected(src, mask)
        IN  /\ n_tris(res) = Len(kept)
            /\ \A i \in 1..Len(kept) : \A j \in 1..3 :
                  /\ res.trilist[i][j] \in 0..(n_points(res) - 1)
                  /\ res.points[res.trilist[i][j] + 1] =
                        src.points[src.trilist[kept[i]][j] + 1]
            /\ mask_adjacency_array(_isolated_mask(src, mask), src.trilist) =
                  mask_adjacency_array(mask, src.trilist)

\* a call that kept one triangle and dropped another
C1_Witness ==
    /\ Returned /\ ~np_all(mask)
    /\ n_tris(res) > 0
    /\ n_tris(res) < n_tris(src)

\* every point of the returned mesh is a vertex of one of its triangles
NoIsolated(this) ==
    \A p \in 1..n_points(this) :
        \E k \in DOMAIN this.trilist : \E j \in 1..3 :
            this.trilist[k][j] = p - 1

\* C2 (as stated): for all masks, every point of the returned mesh is a
\* vertex of at least one triangle of the returned mesh.
C2_NoIsolatedAnyMask == Returned => NoIsolated(res)

\* C2 (amended): for every mask that is not all-True, every point of the
\* returned mesh is a vertex of at least one triangle of the returned mesh.
C2_NoIsolated == (Returned /\ ~np_all(mask)) => NoIsolated(res)

\* a selected vertex was dropped because none of its triangles survived
C2_Witness ==
    /\ Returned /\ ~np_all(mask)
    /\ n_points(res) > 0
    /\ n_points(res) < CountTrue(mask)

\* the surviving vertices are renumbered by the corrected mask
Remapped ==
    LET kept == FullySelected(src, mask)
        corrected == Corrected(src, mask)
    IN  /\ n_tris(res) = Len(kept)
        /\ \A i \in 1..Len(kept) : \A j \in 1..3 :
              LET v == src.trilist[kept[i]][j]
                  w == Cardinality({u \in 0..(v - 1) : corrected[u + 1]})
              IN  /\ res.trilist[i][j] = w
                  /\ w < n_points(res)
                  /\ res.points[w + 1] = src.points[v + 1]

\* C3 (as stated): every mesh in a chain of from_mask calls has its triangle
\* indices below its point count, and each surviving vertex v is renumbered
\* to the number of corrected-mask positions below v, where the result
\* holds the source's point v.
C3_ReindexAnyMask ==
    /\ \A o \in DOMAIN heap : InRange(heap[o])
    /\ Returned => Remapped

\* C3 (amended): the same, the renumbering being that of calls whose mask is
\* not all-True.
C3_Reindex ==
    /\ \A o \in DOMAIN heap : InRange(heap[o])
    /\ (Returned /\ ~np_all(mask)) => Remapped

\* a call, later in a chain, that renumbered a vertex
C3_Witness ==
    /\ Returned /\ ~np_all(mask)
    /\ src.points # [i \in 1..n_points(src) |-> i - 1]
    /\ \E k \in DOMAIN res.trilist : \E j \in 1..3 :
          res.points[res.trilist[k][j] + 1] # src.points[res.trilist[k][j] + 1]

\* the point count is the number of True entries of the corrected mask
CountMatches ==
    LET isolated_mask == _isolated_mask(src, mask)
    IN  /\ Returned
        /\ isolated_mask = Corrected(src, mask)
        /\ \A i \in DOMAIN mask : isolated_mask[i] => mask[i]
        /\ n_points(res) = CountTrue(isolated_mask)
        /\ FullySelected(src, mask) = <<>> =>
              (n_points(res) = 0 /\ n_tris(res) = 0)

\* C4 (as stated): for every mask of length point_count the result's point
\* count is the number of True entries of the corrected mask, a subset of the
\* caller's mask; a mask selecting no complete triangle gives an empty mesh.
C4_PointCountAnyMask ==
    (op = "from_mask" /\ Len(mask) = n_points(src)) => CountMatches

\* C4 (amended): the same for every mask of length point_count that is not
\* all-True.
C4_PointCount ==
    (op = "from_mask" /\ Len(mask) = n_points(src) /\ ~np_all(mask)) =>
        CountMatches

\* a mask that selects vertices but no complete triangle
C4_Witness ==
    /\ Returned /\ ~np_all(mask)
    /\ CountTrue(mask) > 0
    /\ n_tris(src) > 0
    /\ n_points(res) = 0 /\ n_tris(res) = 0

\* C5: a call whose mask length differs from the point count raises the
\* shape error (ValueError), returns no mesh, creates nothing and leaves the
\* source mesh as it was.
C5_ShapeMismatch ==
    [][(op' = "from_mask" /\ Len(mask') # n_points(heap[self])) =>
          /\ err' = "ValueError"
          /\ ret' = None
          /\ self' = self
          /\ heap' = heap]_vars

\* a call with a mask of the wrong length, on a mesh with triangles
C5_Witness ==
    /\ op = "from_mask" /\ err = "ValueError"
    /\ Len(mask) # n_points(src)
    /\ n_tris(src) > 0

\* C6: no from_mask call, failing or not, changes the points or the
\* triangles of the mesh it is called on.
C6_SourceUnchanged ==
    [][op' = "from_mask" => (self' = self /\ heap'[self] = heap[self])]_vars

\* a call that built a new, different mesh
C6_Witness ==
    /\ Returned
    /\ ret # self
    /\ res.points # src.points
    /\ res.trilist # src.trilist

\* C7: with a mask selecting every vertex, from_mask returns a mesh with the
\* source's points and triangles (also when called on such a result).
C7_AllTrueIdentity ==
    (op = "from_mask" /\ Len(mask) = n_points(src) /\ np_all(mask)) =>
        /\ Returned
        /\ res.points = src.points
        /\ res.trilist = src.trilist

\* the all-True mask on a mesh one of whose points is in no triangle
C7_Witness ==
    /\ Returned /\ np_all(mask)
    /\ n_tris(src) > 0
    /\ ~NoIsolated(src)
    /\ res = src

\* ---- edge-list derivation ----

\* the wrap-around pairs come first-vertex-first
trilist_to_adjacency_array_flipped(tl) ==
    LET wrap_around_adj == [k \in DOMAIN tl |-> <<tl[k][1], tl[k][Len(tl[k])]>>]
    IN  [k \in DOMAIN tl |-> SubSeq(tl[k], 1, 2)]
          \o [k \in DOMAIN tl |-> SubSeq(tl[k], 2, Len(tl[k]))]
          \o wrap_around_adj

\* trilist_to_adjacency_array: hstack of the last and the first column, then
\* the concatenation of columns 0-1, columns 1-2 and the wrap-around pairs
trilist_to_adjacency_array(tl) ==
    LET wrap_around_adj == [k \in DOMAIN tl |-> <<tl[k][Len(tl[k])], tl[k][1]>>]
    IN  [k \in DOMAIN tl |-> SubSeq(tl[k], 1, 2)]
          \o [k \in DOMAIN tl |-> SubSeq(tl[k], 2, Len(tl[k]))]
          \o wrap_around_adj

EdgeTables ==
    UNION {[1..k -> [1..3 -> 0..(EdgeMaxIdx - 1)]] : k \in 0..EdgeMaxTris}

MeshIdle ==
    /\ heap = (1 :> [points |-> <<>>, trilist |-> <<>>])
    /\ self = 1
    /\ ret = None
    /\ mask = <<>>
    /\ err = "none"
    /\ op = "idle"

EdgeIdle == trilist = <<>> /\ adjacency_array = <<>> /\ derived = FALSE

EdgeInit ==
    /\ trilist \in EdgeTables
    /\ adjacency_array = <<>>
    /\ derived = FALSE

\* adjacency_array = trilist_to_adjacency_array(self.trilist)
ToAdjacency ==
    /\ ~derived
    /\ adjacency_array' = trilist_to_adjacency_array(trilist)
    /\ derived' = TRUE
    /\ UNCHANGED trilist

\* C8: for M triangles (a, b, c) the edge list has exactly 3M pairs: rows
\* 0..M-1 are (a, b), rows M..2M-1 are (b, c), rows 2M..3M-1 are (c, a), each
\* block in triangle order, nothing removed or sorted.
C8_EdgeList ==
    derived =>
        LET M == Len(trilist)
        IN  /\ Len(adjacency_array) = 3 * M
            /\ \A i \in 1..M :
                  /\ adjacency_array[i] = <<trilist[i][1], trilist[i][2]>>
                  /\ adjacency_array[M + i] = <<trilist[i][2], trilist[i][3]>>
                  /\ adjacency_array[2 * M + i] =
                        <<trilist[i][3], trilist[i][1]>>

\* two triangles, out of sorted order, whose edge list repeats a pair
C8_Witness ==
    /\ derived
    /\ Len(trilist) = 2
    /\ trilist[1][1] > trilist[2][1]
    /\ trilist[1][3] # trilist[1][1]
    /\ \E i, j \in DOMAIN adjacency_array :
          i # j /\ adjacency_array[i] = adjacency_array[j]

\* ---- construction ----

Threads == 1..NThreads

\* lines 47-54 without the forced copy
assign_trilist_nocopy(ref, cp, contiguous) ==
    IF ~cp
    THEN IF ~contiguous
         THEN [trilist |-> ref, warned |-> TRUE]
         ELSE [trilist |-> ref, warned |-> FALSE]
    ELSE [trilist |-> "copy", warned |-> FALSE]

\* TriMesh.__init__, lines 47-54: what self.trilist refers to ("supplied":
\* the caller's array, "simplices": the triangulation's array, "copy": an
\* array made by np.array(copy=True)) and whether warn() was called
assign_trilist(ref, cp, contiguous) ==
    IF ~cp
    THEN IF ~contiguous
         THEN [trilist |-> "copy", warned |-> TRUE]
         ELSE [trilist |-> ref, warned |-> FALSE]
    ELSE [trilist |-> "copy", warned |-> FALSE]

NoArgs == [trilist |-> "None", copy |-> TRUE]

CtorIdle ==
    /\ Delaunay = "None"
    /\ n_imports = 0
    /\ pc = [t \in Threads |-> "idle"]
    /\ args = [t \in Threads |-> NoArgs]
    /\ c_contiguous = [t \in Threads |-> FALSE]
    /\ trilist_ref = [t \in Threads |-> "None"]
    /\ warned = [t \in Threads |-> FALSE]
    /\ invoked = [t \in Threads |-> FALSE]

\* TriMesh(points, trilist, copy) is called; line 41
Call(t) ==
    /\ pc[t] = "idle"
    /\ \E tl \in {"None", "supplied"} : \E cp \in BOOLEAN :
          /\ args' = [args EXCEPT ![t] = [trilist |-> tl, copy |-> cp]]
          /\ trilist_ref' = [trilist_ref EXCEPT ![t] = tl]
          /\ \E cc \in (IF tl = "None" THEN {FALSE} ELSE BOOLEAN) :
                c_contiguous' = [c_contiguous EXCEPT ![t] = cc]
    /\ pc' = [pc EXCEPT ![t] = "l42"]
    /\ UNCHANGED <<Delaunay, n_imports, warned, invoked>>

\* line 42: if trilist is None
TestTrilist(t) ==
    /\ pc[t] = "l42"
    /\ pc' = [pc EXCEPT ![t] =
                 IF trilist_ref[t] = "None" THEN "l44" ELSE "l47"]
    /\ UNCHANGED <<Delaunay, n_imports, args, c_contiguous, trilist_ref,
                   warned, invoked>>

\* line 44: if Delaunay is None
TestDelaunay(t) ==
    /\ pc[t] = "l44"
    /\ pc' = [pc EXCEPT ![t] = IF Delaunay = "None" THEN "l45" ELSE "l46"]
    /\ UNCHANGED <<Delaunay, n_imports, args, c_contiguous, trilist_ref,
                   warned, invoked>>

\* line 45: from scipy.spatial import Delaunay
Import(t) ==
    /\ pc[t] = "l45"
    /\ Delaunay' = "loaded"
    /\ n_imports' = n_imports + 1
    /\ pc' = [pc EXCEPT ![t] = "l46"]
    /\ UNCHANGED <<args, c_contiguous, trilist_ref, warned, invoked>>

\* line 46: trilist = Delaunay(points).simplices, of either layout
Triangulate(t) ==
    /\ pc[t] = "l46"
    /\ Delaunay = "loaded"
    /\ invoked' = [invoked EXCEPT ![t] = TRUE]
    /\ trilist_ref' = [trilist_ref EXCEPT ![t] = "simplices"]
    /\ \E cc \in BOOLEAN : c_contiguous' = [c_contiguous EXCEPT ![t] = cc]
    /\ pc' = [pc EXCEPT ![t] = "l47"]
    /\ UNCHANGED <<Delaunay, n_imports, args, warned>>

\* lines 47-54: self.trilist is set
AssignTrilist(t) ==
    /\ pc[t] = "l47"
    /\ LET r == assign_trilist(trilist_ref[t], args[t].copy, c_contiguous[t])
       IN  /\ trilist_ref' = [trilist_ref EXCEPT ![t] = r.trilist]
           /\ warned' = [warned EXCEPT ![t] = r.warned]
    /\ pc' = [pc EXCEPT ![t] = "done"]
    /\ UNCHANGED <<Delaunay, n_imports, args, c_contiguous, invoked>>

\* the constructor returns; the thread may construct another mesh
Return(t) ==
    /\ pc[t] = "done"
    /\ pc' = [pc EXCEPT ![t] = "idle"]
    /\ args' = [args EXCEPT ![t] = NoArgs]
    /\ c_contiguous' = [c_contiguous EXCEPT ![t] = FALSE]
    /\ trilist_ref' = [trilist_ref EXCEPT ![t] = "None"]
    /\ warned' = [warned EXCEPT ![t] = FALSE]
    /\ invoked' = [invoked EXCEPT ![t] = FALSE]
    /\ UNCHANGED <<Delaunay, n_imports>>

Init == MeshInit /\ EdgeIdle /\ CtorIdle

Next ==
    \/ FromMask /\ UNCHANGED <<edgeVars, ctorVars>>
    \/ Discard /\ UNCHANGED <<edgeVars, ctorVars>>
    \/ Adopt /\ UNCHANGED <<edgeVars, ctorVars>>

Spec == Init /\ [][Next]_vars

InitEdges == MeshIdle /\ EdgeInit /\ CtorIdle

NextEdges == ToAdjacency /\ UNCHANGED <<meshVars, ctorVars>>

SpecEdges == InitEdges /\ [][NextEdges]_vars

InitCtor == MeshIdle /\ EdgeIdle /\ CtorIdle

NextCtor ==
    \E t \in Threads :
        \/ Call(t) /\ UNCHANGED <<meshVars, edgeVars>>
        \/ TestTrilist(t) /\ UNCHANGED <<meshVars, edgeVars>>
        \/ TestDelaunay(t) /\ UNCHANGED <<meshVars, edgeVars>>
        \/ Import(t) /\ UNCHANGED <<meshVars, edgeVars>>
        \/ Triangulate(t) /\ UNCHANGED <<meshVars, edgeVars>>
        \/ AssignTrilist(t) /\ UNCHANGED <<meshVars, edgeVars>>
        \/ Return(t) /\ UNCHANGED <<meshVars, edgeVars>>

SpecCtor == InitCtor /\ [][NextCtor]_vars

====
